---- MODULE Spec2Model ----
(***************************************************************************)
(* Gmail-to-Sheets automation: one run of main() (src/src/main.py) polls   *)
(* the inbox for unread mail, filters it against the ledger of processed   *)
(* ids, appends the new rows to the sheet and commits the ledger.          *)
(*                                                                         *)
(* main() calls get_last_run_timestamp / update_last_run_timestamp on the  *)
(* state manager; the ledger operations are the ones of src/db/queries.py  *)
(* (table processed_emails, singleton table last_run).  is_processed of    *)
(* EmailStateManager (membership in processed_ids) is the same predicate   *)
(* as the lookup in the table.  main() passes exclude_noreply to           *)
(* get_unread_emails, which takes after_timestamp and subject_filter only; *)
(* the call is modelled as the call with these two (subject_filter None).  *)
(*                                                                         *)
(* The clock (datetime.utcnow) is taken not to go backwards.               *)
(***************************************************************************)
EXTENDS Integers, Sequences, FiniteSets, TLC

\* ---------------------------------------------------------------- bounds
MaxClock == 2
TicksPerDay == 2
MaxFaults == 1
MaxBatch == 3      \* longest list handed to filter_new_emails on its own
MaxSender == 4     \* longest string handed to extract_email_address on its own

\* ------------------------------------------------------------- the mail
\* The messages the mail source may deliver.  Header values are the raw
\* strings of the message; a sender is a sequence of characters so that the
\* address extraction is computed and not assumed.  D is a message whose body
\* cannot be decoded.
Msgs == {"A", "B", "C", "D"}
ListOrder == <<"A", "B", "C", "D">>

Headers(m) ==
    CASE m = "A" -> << [name |-> "From",    value |-> <<"J", " ", "<", "a", "@", "x", ">">>],
                       [name |-> "Subject", value |-> "s1"],
                       [name |-> "Date",    value |-> "d1"] >>
      [] m = "B" -> << [name |-> "Subject", value |-> "s1"],
                       [name |-> "From",    value |-> <<" ", "a", "@", "x">>],
                       [name |-> "Date",    value |-> "d1"] >>
      [] m = "C" -> << [name |-> "From",    value |-> <<"g">>],
                       [name |-> "Subject", value |-> "s2"] >>
      [] OTHER   -> << [name |-> "From",    value |-> <<"d", "@", "x">>],
                       [name |-> "Subject", value |-> "s3"],
                       [name |-> "Date",    value |-> "d3"] >>

\* the empty value of a header: '' (an empty sender is the empty sequence)
EmptyValue(name) == IF name = "From" THEN <<>> ELSE ""

\* gmail_service.py _get_header_value: first header of that name, else ''
_get_header_value(headers, name) ==
    LET idx == {i \in 1..Len(headers) : headers[i].name = name}
    IN  IF idx = {} THEN EmptyValue(name)
        ELSE headers[CHOOSE i \in idx : \A j \in idx : i <= j].value

\* A text is a sequence of tokens: words, the blank, the newline, the tags of
\* an HTML text, and BadByte for bytes that are not UTF-8.
IsSpace(c) == c \in {" ", "\n"}

\* str.strip(): drop leading and trailing whitespace
Strip(s) ==
    LET keep == {i \in 1..Len(s) : ~IsSpace(s[i])}
    IN  IF keep = {} THEN <<>>
        ELSE SubSeq(s, CHOOSE i \in keep : \A j \in keep : i <= j,
                       CHOOSE i \in keep : \A j \in keep : i >= j)

BadByte == "\\xff"

\* base64.urlsafe_b64decode(body_data).decode('utf-8') succeeds
Decodable(data) == \A i \in 1..Len(data) : data[i] # BadByte

IsTag(t) == t \in {"<p>", "</p>", "<br>", "<script>", "</script>", "<style>", "</style>"}

Flush(cur) == IF cur = <<>> THEN <<>> ELSE <<cur>>

\* the text nodes of the parsed HTML after script and style elements are
\* decomposed; inside is "" or the closing tag of the element being skipped
RECURSIVE TextNodes(_, _, _)
TextNodes(rest, inside, cur) ==
    IF rest = <<>> THEN Flush(cur)
    ELSE LET t == Head(rest)
         IN  IF inside # ""
             THEN TextNodes(Tail(rest), IF t = inside THEN "" ELSE inside, <<>>)
             ELSE IF t = "<script>"
             THEN Flush(cur) \o TextNodes(Tail(rest), "</script>", <<>>)
             ELSE IF t = "<style>"
             THEN Flush(cur) \o TextNodes(Tail(rest), "</style>", <<>>)
             ELSE IF IsTag(t)
             THEN Flush(cur) \o TextNodes(Tail(rest), "", <<>>)
             ELSE TextNodes(Tail(rest), "", Append(cur, t))

\* sep.join(texts)
RECURSIVE JoinWith(_, _)
JoinWith(texts, sep) ==
    IF texts = <<>> THEN <<>>
    ELSE IF Len(texts) = 1 THEN texts[1]
    ELSE texts[1] \o <<sep>> \o JoinWith(Tail(texts), sep)

\* str.splitlines()
RECURSIVE SplitLines(_, _)
SplitLines(rest, cur) ==
    IF rest = <<>> THEN Flush(cur)
    ELSE IF Head(rest) = "\n" THEN <<cur>> \o SplitLines(Tail(rest), <<>>)
    ELSE SplitLines(Tail(rest), Append(cur, Head(rest)))

\* get_full_body, the HTML branch: scripts and styles removed, the text nodes
\* joined with a blank, stripped, and the non-blank lines stripped and joined
CleanHtml(decoded_text) ==
    LET text == Strip(JoinWith(TextNodes(decoded_text, "", <<>>), " "))
        lines == SplitLines(text, <<>>)
        clean_lines == SelectSeq([i \in 1..Len(lines) |-> Strip(lines[i])],
                                 LAMBDA line : line # <<>>)
    IN  JoinWith(clean_lines, "\n")

NoContent == <<"No content found">>

\* get_full_body: the data of the top-level body when there is some; else,
\* of the parts of the top level, the data of the first text/plain part, or of
\* the last text/html part when no part is text/plain.  A part is a record of
\* mimeType, data (<<>> when the body has none) and parts.  raised tells that
\* the decoding raised an exception, which the function does not catch.
get_full_body(message_payload) ==
    LET parts == message_payload.parts
        plain == {i \in 1..Len(parts) : parts[i].mimeType = "text/plain"}
        html  == {i \in 1..Len(parts) : parts[i].mimeType = "text/html"}
        top   == message_payload.data # <<>>
        body_data ==
            IF top THEN message_payload.data
            ELSE IF plain # {}
            THEN parts[CHOOSE i \in plain : \A j \in plain : i <= j].data
            ELSE IF html # {}
            THEN parts[CHOOSE i \in html : \A j \in html : i >= j].data
            ELSE <<>>
        is_html ==
            IF top THEN message_payload.mimeType = "text/html"
            ELSE plain = {} /\ html # {}
    IN  IF body_data = <<>> THEN [raised |-> FALSE, text |-> NoContent]
        ELSE IF ~Decodable(body_data) THEN [raised |-> TRUE, text |-> <<>>]
        ELSE [raised |-> FALSE,
              text   |-> IF is_html THEN CleanHtml(body_data) ELSE Strip(body_data)]

Leaf(mimeType, data) == [mimeType |-> mimeType, data |-> data, parts |-> <<>>]

Multipart(mimeType, parts) == [mimeType |-> mimeType, data |-> <<>>, parts |-> parts]

\* the payload of message m
Payload(m) ==
    IF m = "D" THEN Leaf("text/plain", <<BadByte>>)
    ELSE Leaf("text/plain", <<"text", "\n">>)

\* the text get_full_body returns for the payload of m
MsgBody(m) == get_full_body(Payload(m)).text

\* the messages whose details can be built
WellFormed == {m \in Msgs : ~get_full_body(Payload(m)).raised}

\* gmail_service.py _get_email_details: the dict built from the message
_get_email_details(m) ==
    [id      |-> m,
     subject |-> _get_header_value(Headers(m), "Subject"),
     sender  |-> _get_header_value(Headers(m), "From"),
     date    |-> _get_header_value(Headers(m), "Date"),
     body    |-> MsgBody(m)]

\* ------------------------------------------------------ email_parser.py
\* positions where re.search(r'<([^>]+)>') can match: a '<' followed by at
\* least one character other than '>' and then a '>'
AngleStarts(s) ==
    {i \in 1..Len(s) :
        /\ s[i] = "<"
        /\ \E j \in (i + 2)..Len(s) :
              s[j] = ">" /\ \A k \in (i + 1)..(j - 1) : s[k] # ">"}

\* mutant of extract_email_address: the pattern is greedy, '<(.+)>', and
\* matches up to the last '>'
extract_email_address_greedy(sender_string) ==
    LET opens  == {i \in 1..Len(sender_string) : sender_string[i] = "<"}
        starts == {i \in opens : \E j \in (i + 2)..Len(sender_string) :
                                    sender_string[j] = ">"}
    IN  IF starts # {}
        THEN LET i == CHOOSE a \in starts : \A b \in starts : a <= b
                 closes == {c \in (i + 2)..Len(sender_string) : sender_string[c] = ">"}
                 j == CHOOSE c \in closes : \A d \in closes : c >= d
             IN  SubSeq(sender_string, i + 1, j - 1)
        ELSE IF \E i \in 1..Len(sender_string) : sender_string[i] = "@"
             THEN Strip(sender_string)
             ELSE sender_string

extract_email_address(sender_string) ==
    LET starts == AngleStarts(sender_string)
    IN  IF starts # {}
        THEN LET i == CHOOSE a \in starts : \A b \in starts : a <= b
                 j == CHOOSE c \in (i + 2)..Len(sender_string) :
                         /\ sender_string[c] = ">"
                         /\ \A k \in (i + 1)..(c - 1) : sender_string[k] # ">"
             IN  SubSeq(sender_string, i + 1, j - 1)
        ELSE IF \E i \in 1..Len(sender_string) : sender_string[i] = "@"
             THEN Strip(sender_string)
             ELSE sender_string

\* email.get(field, default)
DictGet(email, field, default) ==
    IF field \in DOMAIN email THEN email[field] ELSE default

parse_email_data(email) ==
    [sender_email |-> extract_email_address(DictGet(email, "sender", <<>>)),
     subject      |-> DictGet(email, "subject", ""),
     date         |-> DictGet(email, "date", ""),
     body         |-> DictGet(email, "snippet", <<>>)]

\* [f(x) for x in seq]
ParseAll(emails) == [i \in 1..Len(emails) |-> parse_email_data(emails[i])]

\* ------------------------------------------------------------ the state
\* absent timestamp of the last_run table (queries.py returns None)
None == -1

VARIABLES
    mailbox,           \* mail source: per message "absent", "read", or "unread"
                       \*   with its arrival time (what the query can see)
    now,               \* datetime.utcnow(), in ticks
    processed_emails,  \* state.db table processed_emails: message_id -> processed_at
    last_run,          \* state.db table last_run: the row id = 1, or None
    sink,              \* data rows of the sheet, in sheet order
    header,            \* row 1 of the sheet holds the header (else the data
                       \*   rows start in row 1)
    pc,                \* position of the run inside main()
    after_timestamp,   \* main: last_run as read at the start of the run
    unread_emails,     \* main: result of get_unread_emails
    new_emails,        \* main: result of filter_new_emails
    idx,               \* main: position of the commit loop over new_emails
    rows_added,        \* main: result of append_emails
    faults,            \* number of collaborator failures so far
    run                \* history of the current (or last) run, for the properties

vars == <<mailbox, now, processed_emails, last_run, sink, header, pc, after_timestamp,
          unread_emails, new_emails, idx, rows_added, faults, run>>

world == <<mailbox, now, processed_emails, last_run, sink, header>>
locals == <<after_timestamp, unread_emails, new_emails, idx, rows_added>>

Day(t) == t \div TicksPerDay

NoRun ==
    [last          |-> "none",   \* the last run that ended, if no mail arrived since
                                 \*   its fetch: "aborted", "incomplete" (it reached
                                 \*   its end, its fetch had an error), "complete"
     prev          |-> "none",   \* last, as it was at the fetch of this run
     table0        |-> [k \in {} |-> 0],  \* the processed_emails table when the run started
     last_run0     |-> None,     \* the watermark when the run started
     sink0         |-> <<>>,     \* the sink rows when the run started
     fetch         |-> "none",   \* "ok", "partial" (a detail read failed), "list_error",
                                 \*   "raised" (an exception left get_unread_emails)
     readable      |-> {},       \* the listed ids whose detail read did not fail
     keys_read     |-> "none",   \* "ok", "error"
     append        |-> "none",   \* "ok", "nothing_to_add", "error"
     written       |-> <<>>,     \* ids of the rows this run appended, in order
     marked        |-> {},       \* ids passed to mark_as_processed by this run
     remarked      |-> {},       \* those of them that were in the ledger already
     arg           |-> "none",   \* the argument of the last call of a function made
     result        |-> FALSE,    \*   on its own, and what the call returned
     wm_updated    |-> FALSE,    \* update_last_run_timestamp was done by this run
     cleared       |-> {},       \* ids whose UNREAD label this run removed
     mark_read     |-> "none",   \* mark_emails_as_read: "ok", "error"
     arrived       |-> FALSE,    \* mail arrived since the fetch of this run
     end           |-> "none"]   \* "running", "no_access", "no_new", "done", "aborted"

Init ==
    /\ mailbox = [m \in Msgs |-> [state |-> "absent"]]
    /\ now = 0
    /\ processed_emails = [k \in {} |-> 0]
    /\ last_run = None
    /\ sink = <<>>
    /\ header = FALSE
    /\ pc = "idle"
    /\ after_timestamp = None
    /\ unread_emails = <<>>
    /\ new_emails = <<>>
    /\ idx = 0
    /\ rows_added = 0
    /\ faults = 0
    /\ run = NoRun

\* ------------------------------------------------------------ db/queries.py
is_processed(message_id) == message_id \in DOMAIN processed_emails

\* mutant of mark_as_processed: the INSERT is never committed
mark_as_processed_uncommitted(message_id) == processed_emails

\* mutant of mark_as_processed: INSERT OR REPLACE, an existing row is
\* written again with the current time
mark_as_processed_replace(message_id) ==
    [k \in DOMAIN processed_emails \cup {message_id} |->
        IF k = message_id THEN now ELSE processed_emails[k]]

\* INSERT; sqlite3.IntegrityError on an existing id is swallowed
mark_as_processed(message_id) ==
    IF message_id \in DOMAIN processed_emails
    THEN processed_emails
    ELSE [k \in DOMAIN processed_emails \cup {message_id} |->
            IF k = message_id THEN now ELSE processed_emails[k]]

get_last_run_timestamp == last_run

\* mutant of update_last_run_timestamp: the watermark is set to the arrival
\* time of the first message of the batch instead of the end-of-run time
update_last_run_timestamp_of_message == mailbox[new_emails[1].id].internalDate

\* INSERT OR REPLACE INTO last_run (id, timestamp) VALUES (1, utcnow())
update_last_run_timestamp == now

\* ----------------------------------------------------- email_parser.py
\* mutant of filter_new_emails: the ledger is not consulted
filter_new_emails_unfiltered(emails) == emails

\* mutant of filter_new_emails: the emails kept are collected back to front
filter_new_emails_reversed(emails) ==
    LET kept == SelectSeq(emails, LAMBDA email : ~is_processed(email.id))
    IN  [i \in 1..Len(kept) |-> kept[Len(kept) + 1 - i]]

filter_new_emails(emails) ==
    SelectSeq(emails, LAMBDA email : ~is_processed(email.id))

\* ----------------------------------------------------- gmail_service.py
\* the messages matching 'is:unread in:inbox [after:YYYY/MM/DD]'
Matches(m, after) ==
    /\ mailbox[m].state = "unread"
    /\ (after = None \/ Day(mailbox[m].internalDate) >= Day(after))

\* mutant of get_unread_emails: the error branch hands back mail all the same
get_unread_emails_despite_error(after, list_ok, detail_failed) ==
    LET messages == SelectSeq(ListOrder, LAMBDA m : Matches(m, after))
    IN  [i \in 1..Len(messages) |-> _get_email_details(messages[i])]

\* get_unread_emails: an HttpError of messages.list gives []; a message whose
\* detail read raises HttpError is left out of the list
get_unread_emails(after, list_ok, detail_failed) ==
    IF ~list_ok THEN <<>>
    ELSE LET messages == SelectSeq(ListOrder, LAMBDA m : Matches(m, after))
             got == SelectSeq(messages, LAMBDA m : m \notin detail_failed)
         IN  [i \in 1..Len(got) |-> _get_email_details(got[i])]

\* ----------------------------------------------------- sheets_service.py
\* values().get(range = A2:C): the cells of columns A..C of each data row;
\* the Sheets API leaves out the empty cells at the end of a row
CellsAtoC(row) ==
    IF row.date # "" THEN <<row.sender_email, row.subject, row.date>>
    ELSE IF row.subject # "" THEN <<row.sender_email, row.subject>>
    ELSE IF row.sender_email # <<>> THEN <<row.sender_email>>
    ELSE <<>>

\* the cells of columns A..D of a data row, as values().get returns them
CellsAtoD(row) ==
    IF row.body # <<>> THEN <<row.sender_email, row.subject, row.date, row.body>>
    ELSE CellsAtoC(row)

\* mutant of initialize_sheet: the header is written without looking at row 1
initialize_sheet_unchecked(ok) ==
    IF ~ok THEN [header |-> header, sink |-> sink]
    ELSE [header |-> TRUE,
          sink   |-> IF ~header /\ sink # <<>> THEN Tail(sink) ELSE sink]

\* initialize_sheet: the header is written to A1:D1 when values().get of
\* A1:D1 returns no cell; an HttpError is caught and nothing is written.
\* The result is the sheet after the call.
initialize_sheet(ok) ==
    LET values == IF header THEN <<"Sender Email", "Subject", "Date", "Body">>
                  ELSE IF sink # <<>> THEN CellsAtoD(sink[1])
                  ELSE <<>>
    IN  [header |-> IF ok /\ values = <<>> THEN TRUE ELSE header,
         sink   |-> sink]

\* the rows of the sheet from row 2 on (range A2:C, 'skip header row')
RowsFrom2 == IF header \/ sink = <<>> THEN sink ELSE Tail(sink)

\* mutant of get_existing_emails: a failed read hands back the keys of the
\* sheet all the same
get_existing_emails_despite_error(read_ok) ==
    {CellsAtoC(RowsFrom2[i]) :
        i \in {j \in 1..Len(RowsFrom2) : Len(CellsAtoC(RowsFrom2[j])) >= 3}}

\* get_existing_emails: the (sender, subject, date) of every row read with at
\* least 3 cells; an HttpError gives the empty set
get_existing_emails(read_ok) ==
    IF ~read_ok THEN {}
    ELSE {CellsAtoC(RowsFrom2[i]) :
             i \in {j \in 1..Len(RowsFrom2) : Len(CellsAtoC(RowsFrom2[j])) >= 3}}

email_key(email) == <<email.sender_email, email.subject, email.date>>

\* append_emails, the loop over parsed_emails: the positions of the emails
\* whose key is not in existing_emails
rows_to_add(parsed_emails, existing_emails) ==
    SelectSeq([i \in 1..Len(parsed_emails) |-> i],
              LAMBDA i : email_key(parsed_emails[i]) \notin existing_emails)

\* the sheet row appended for parsed email number i of the batch; id records
\* the message the row was made from (it is not a cell of the sheet)
SheetRow(parsed_emails, emails, i) ==
    [sender_email |-> parsed_emails[i].sender_email,
     subject      |-> parsed_emails[i].subject,
     date         |-> parsed_emails[i].date,
     body         |-> parsed_emails[i].body,
     id           |-> emails[i].id]

Ids(emails) == {emails[i].id : i \in 1..Len(emails)}

\* ------------------------------------------------------------- main.py
\* main, steps 2 to 4: verify_spreadsheet_access (main returns when it gives
\* False), initialize_sheet (its result is not looked at), then the state
\* manager is loaded and the watermark read
StartRun ==
    /\ pc = "idle"
    /\ \E access_ok \in BOOLEAN, init_ok \in BOOLEAN :
          /\ ~access_ok => init_ok
          /\ faults' = faults + (IF access_ok /\ init_ok THEN 0 ELSE 1)
          /\ faults' <= MaxFaults
          /\ IF access_ok
             THEN /\ header' = initialize_sheet(init_ok).header
                  /\ sink' = initialize_sheet(init_ok).sink
                  /\ after_timestamp' = get_last_run_timestamp
                  /\ pc' = "fetch"
             ELSE /\ UNCHANGED <<header, sink, after_timestamp>>
                  /\ pc' = "ended"
          /\ run' = [NoRun EXCEPT
                       !.table0 = processed_emails,
                       !.last_run0 = last_run,
                       !.sink0 = sink,
                       !.last = run.last,
                       !.end = IF access_ok THEN "running" ELSE "no_access"]
    /\ UNCHANGED <<mailbox, now, processed_emails, last_run,
                   unread_emails, new_emails, idx, rows_added>>

\* get_unread_emails and _get_email_details catch HttpError only: the
\* exception of a body that cannot be decoded leaves get_unread_emails
get_unread_emails_raises(after, list_ok, detail_failed) ==
    /\ list_ok
    /\ \E m \in Msgs : Matches(m, after) /\ m \notin detail_failed /\ m \notin WellFormed

\* main, step 5: gmail.get_unread_emails(after_timestamp = last_run); main
\* does not catch what the call raises
Fetch ==
    /\ pc = "fetch"
    /\ \E list_ok \in BOOLEAN :
       \E detail_failed \in SUBSET {m \in Msgs : Matches(m, after_timestamp)} :
          LET raises == get_unread_emails_raises(after_timestamp, list_ok, detail_failed)
          IN  /\ ~list_ok => detail_failed = {}
              /\ faults' = faults + (IF list_ok THEN Cardinality(detail_failed) ELSE 1)
              /\ faults' <= MaxFaults
              /\ unread_emails' =
                    IF raises THEN unread_emails
                    ELSE get_unread_emails(after_timestamp, list_ok, detail_failed)
              /\ run' = [run EXCEPT
                           !.fetch = IF ~list_ok THEN "list_error"
                                     ELSE IF raises THEN "raised"
                                     ELSE IF detail_failed = {} THEN "ok" ELSE "partial",
                           !.readable =
                               IF ~list_ok THEN {}
                               ELSE {m \in Msgs : Matches(m, after_timestamp)} \ detail_failed,
                           !.prev = run.last,
                           !.end = IF raises THEN "aborted" ELSE run.end]
              /\ pc' = IF raises THEN "ended" ELSE "filter"
    /\ UNCHANGED <<world, after_timestamp, new_emails, idx, rows_added>>

\* mutant of Filter: the watermark is advanced before the return when
\* nothing is new
Filter_advancing ==
    /\ pc = "filter"
    /\ new_emails' = filter_new_emails(unread_emails)
    /\ IF new_emails' = <<>>
       THEN /\ pc' = "ended"
            /\ last_run' = update_last_run_timestamp
            /\ run' = [run EXCEPT !.end = "no_new"]
       ELSE /\ pc' = "append"
            /\ last_run' = last_run
            /\ run' = run
    /\ UNCHANGED <<mailbox, now, processed_emails, sink, header, after_timestamp,
                   unread_emails, idx, rows_added, faults>>

\* main, step 6: filter_new_emails, and the return when nothing is new
Filter ==
    /\ pc = "filter"
    /\ new_emails' = filter_new_emails(unread_emails)
    /\ IF new_emails' = <<>>
       THEN /\ pc' = "ended"
            /\ run' = [run EXCEPT !.end = "no_new"]
       ELSE /\ pc' = "append"
            /\ run' = run
    /\ UNCHANGED <<world, after_timestamp, unread_emails, idx, rows_added, faults>>

\* main, steps 7 and 8: parse_email_data on every new email, then
\* sheets.append_emails(parsed_emails), which reads the existing keys, drops
\* the rows already in the sheet and appends the others in one call; an
\* HttpError of the append is caught and 0 returned
AppendEmails ==
    /\ pc = "append"
    /\ \E read_ok \in BOOLEAN, write_ok \in BOOLEAN :
         LET parsed_emails == ParseAll(new_emails)
             existing_emails == get_existing_emails(read_ok)
             keep == rows_to_add(parsed_emails, existing_emails)
             rows == [k \in 1..Len(keep) |-> SheetRow(parsed_emails, new_emails, keep[k])]
         IN  /\ keep = <<>> => write_ok
             /\ faults' = faults + (IF read_ok THEN 0 ELSE 1) + (IF write_ok THEN 0 ELSE 1)
             /\ faults' <= MaxFaults
             /\ sink' = IF write_ok THEN sink \o rows ELSE sink
             /\ rows_added' = IF write_ok THEN Len(rows) ELSE 0
             /\ run' = [run EXCEPT
                          !.keys_read = IF read_ok THEN "ok" ELSE "error",
                          !.append = IF keep = <<>> THEN "nothing_to_add"
                                     ELSE IF write_ok THEN "ok" ELSE "error",
                          !.written = IF write_ok
                                      THEN [k \in 1..Len(rows) |-> rows[k].id]
                                      ELSE <<>>]
    /\ idx' = 1
    /\ pc' = "mark"
    /\ UNCHANGED <<mailbox, now, processed_emails, last_run, header,
                   after_timestamp, unread_emails, new_emails>>

\* main, step 9, one turn of: for email in new_emails: mark_as_processed(id)
MarkAsProcessed ==
    /\ pc = "mark"
    /\ processed_emails' = mark_as_processed(new_emails[idx].id)
    /\ run' = [run EXCEPT
                 !.marked = @ \cup {new_emails[idx].id},
                 !.remarked = @ \cup (IF is_processed(new_emails[idx].id)
                                      THEN {new_emails[idx].id} ELSE {})]
    /\ idx' = idx + 1
    /\ pc' = IF idx = Len(new_emails) THEN "watermark" ELSE "mark"
    /\ UNCHANGED <<mailbox, now, last_run, sink, header, after_timestamp, unread_emails,
                   new_emails, rows_added, faults>>

\* main, step 9: state_manager.update_last_run_timestamp()
UpdateLastRun ==
    /\ pc = "watermark"
    /\ last_run' = update_last_run_timestamp
    /\ run' = [run EXCEPT !.wm_updated = TRUE]
    /\ pc' = "read"
    /\ UNCHANGED <<mailbox, now, processed_emails, sink, header, locals, faults>>

\* gmail_service.py mark_emails_as_read: batchModify removes UNREAD from the
\* ids; an HttpError is caught and False returned, which main ignores
mark_emails_as_read(message_ids, ok) ==
    IF ~ok THEN mailbox
    ELSE [m \in Msgs |->
            IF m \in message_ids /\ mailbox[m].state = "unread"
            THEN [state |-> "read"]
            ELSE mailbox[m]]

\* mutant of MarkRead: the HttpError of batchModify is not caught and ends
\* the run as an exception
MarkRead_unhandled ==
    /\ pc = "read"
    /\ \E ok \in BOOLEAN :
          /\ faults' = faults + (IF ok THEN 0 ELSE 1)
          /\ faults' <= MaxFaults
          /\ mailbox' = mark_emails_as_read(Ids(new_emails), ok)
          /\ run' = [run EXCEPT !.cleared = IF ok THEN Ids(new_emails) ELSE {},
                                !.mark_read = IF ok THEN "ok" ELSE "error",
                                !.end = IF ok THEN "done" ELSE "aborted"]
    /\ pc' = "ended"
    /\ UNCHANGED <<now, processed_emails, last_run, sink, header, locals>>

\* main, step 9: gmail.mark_emails_as_read(ids of new_emails), end of main
MarkRead ==
    /\ pc = "read"
    /\ \E ok \in BOOLEAN :
          /\ faults' = faults + (IF ok THEN 0 ELSE 1)
          /\ faults' <= MaxFaults
          /\ mailbox' = mark_emails_as_read(Ids(new_emails), ok)
          /\ run' = [run EXCEPT !.cleared = IF ok THEN Ids(new_emails) ELSE {},
                                !.mark_read = IF ok THEN "ok" ELSE "error",
                                !.end = "done"]
    /\ pc' = "ended"
    /\ UNCHANGED <<now, processed_emails, last_run, sink, header, locals>>

\* main has no try/except: an exception that is not caught by the services
\* (sqlite3.OperationalError of the ledger, a transport error, the end of the
\* process) ends the run where it is
Abort ==
    /\ pc \notin {"idle", "ended"}
    /\ faults < MaxFaults
    /\ faults' = faults + 1
    /\ run' = [run EXCEPT !.end = "aborted"]
    /\ pc' = "ended"
    /\ UNCHANGED <<world, locals>>

\* the process exits: the variables of main are gone, the ledger, the sheet
\* and the mailbox stay
Exit ==
    /\ pc = "ended"
    /\ pc' = "idle"
    /\ after_timestamp' = None
    /\ unread_emails' = <<>>
    /\ new_emails' = <<>>
    /\ idx' = 0
    /\ rows_added' = 0
    /\ run' = [NoRun EXCEPT
                 !.last = IF run.arrived THEN "none"
                          ELSE IF run.end = "aborted" THEN "aborted"
                          ELSE IF run.fetch = "ok" THEN "complete" ELSE "incomplete"]
    /\ UNCHANGED <<world, faults>>

\* ------------------------------------------------------- the environment
\* The steps of main that read the clock are the inserts into the ledger and
\* the write of the watermark; the step that reads the mailbox is the fetch.
\* Before any other step (the filter, the append, the clearing of the unread
\* flags of the batch, the exit) a delivery or a tick gives the same state as
\* the same delivery or tick after that step, and is taken after it.
Quiet == pc \in {"filter", "append", "read", "ended"}

\* a message is delivered to the inbox, unread
Arrive(m) ==
    /\ ~Quiet
    /\ mailbox[m].state = "absent"
    /\ mailbox' = [mailbox EXCEPT ![m] = [state |-> "unread", internalDate |-> now]]
    /\ run' = [run EXCEPT !.last = "none",
                          !.arrived = (run.fetch # "none")]
    /\ UNCHANGED <<now, processed_emails, last_run, sink, header, pc, locals, faults>>

\* time passes
Tick ==
    /\ ~Quiet
    /\ now < MaxClock
    /\ now' = now + 1
    /\ UNCHANGED <<mailbox, processed_emails, last_run, sink, header, pc, locals, faults, run>>

Next ==
    \/ StartRun
    \/ Fetch
    \/ Filter
    \/ AppendEmails
    \/ MarkAsProcessed
    \/ UpdateLastRun
    \/ MarkRead
    \/ Abort
    \/ Exit
    \/ \E m \in WellFormed : Arrive(m)
    \/ Tick

\* the program with the mail of the well-formed messages
Spec == Init /\ [][Next]_vars

\* the steps of main
RunStep ==
    \/ StartRun
    \/ Fetch
    \/ Filter
    \/ AppendEmails
    \/ MarkAsProcessed
    \/ UpdateLastRun
    \/ MarkRead
    \/ Exit

\* the program when runs keep being executed: a run that can take its next
\* step takes it, and a new run is started after each one.  The calls of a
\* run fail at most MaxFaults times in all, so that they succeed in the end.
SpecLive == Init /\ [][Next]_vars /\ WF_vars(RunStep)

NextMalformed ==
    \/ Next
    \/ \E m \in Msgs \ WellFormed : Arrive(m)

\* the program with all the mail, the message that cannot be decoded included
SpecMalformed == Init /\ [][NextMalformed]_vars

\* ------------------------------------------- filter_new_emails on its own
\* every list of at most MaxBatch candidate emails (any order, with repeats)
\* against every ledger; the step is the Filter step of main
SeqsUpTo(S, n) == UNION {[1..k -> S] : k \in 0..n}

InitFilter ==
    /\ mailbox = [m \in Msgs |-> [state |-> "absent"]]
    /\ now = 0
    /\ processed_emails \in {[k \in S |-> 0] : S \in SUBSET Msgs}
    /\ last_run = None
    /\ sink = <<>>
    /\ header = FALSE
    /\ pc = "filter"
    /\ after_timestamp = None
    /\ unread_emails \in {[i \in 1..Len(ms) |-> _get_email_details(ms[i])] :
                              ms \in SeqsUpTo(Msgs, MaxBatch)}
    /\ new_emails = <<>>
    /\ idx = 0
    /\ rows_added = 0
    /\ faults = 0
    /\ run = [NoRun EXCEPT !.table0 = processed_emails, !.end = "running"]

SpecFilter == InitFilter /\ [][Filter]_vars

\* ----------------------------------------- the ledger operations on their own
\* any sequence of mark_as_processed and is_processed calls, on any ids, as
\* time passes
LedgerMark(message_id) ==
    /\ pc = "ledger"
    /\ processed_emails' = mark_as_processed(message_id)
    /\ run' = [run EXCEPT
                 !.marked = @ \cup {message_id},
                 !.remarked = @ \cup (IF is_processed(message_id)
                                      THEN {message_id} ELSE {})]
    /\ UNCHANGED <<mailbox, now, last_run, sink, header, pc, locals, faults>>

LedgerIsProcessed(message_id) ==
    /\ pc = "ledger"
    /\ run' = [run EXCEPT !.arg = message_id,
                          !.result = is_processed(message_id)]
    /\ UNCHANGED <<world, pc, locals, faults>>

InitLedger ==
    /\ mailbox = [m \in Msgs |-> [state |-> "absent"]]
    /\ now = 0
    /\ processed_emails = [k \in {} |-> 0]
    /\ last_run = None
    /\ sink = <<>>
    /\ header = FALSE
    /\ pc = "ledger"
    /\ after_timestamp = None
    /\ unread_emails = <<>>
    /\ new_emails = <<>>
    /\ idx = 0
    /\ rows_added = 0
    /\ faults = 0
    /\ run = NoRun

NextLedger ==
    \/ \E m \in Msgs : LedgerMark(m)
    \/ \E m \in Msgs : LedgerIsProcessed(m)
    \/ Tick

SpecLedger == InitLedger /\ [][NextLedger]_vars

\* --------------------------------------- extract_email_address on its own
\* every sender string of at most MaxSender characters over letters, '@',
\* the angle brackets and the blank
SenderChars == {"a", "@", "<", ">", " "}

ExtractEmailAddress ==
    /\ pc = "extract"
    /\ run' = [run EXCEPT !.result = extract_email_address(run.arg)]
    /\ pc' = "extracted"
    /\ UNCHANGED <<world, locals, faults>>

InitExtract ==
    /\ mailbox = [m \in Msgs |-> [state |-> "absent"]]
    /\ now = 0
    /\ processed_emails = [k \in {} |-> 0]
    /\ last_run = None
    /\ sink = <<>>
    /\ header = FALSE
    /\ pc = "extract"
    /\ after_timestamp = None
    /\ unread_emails = <<>>
    /\ new_emails = <<>>
    /\ idx = 0
    /\ rows_added = 0
    /\ faults = 0
    /\ run \in {[NoRun EXCEPT !.arg = s, !.result = <<>>] :
                    s \in SeqsUpTo(SenderChars, MaxSender)}

SpecExtract == InitExtract /\ [][ExtractEmailAddress]_vars

\* ----------------------------------------------- get_full_body on its own
\* the payloads: a single part, or a multipart of one or two members, each a
\* single part or a multipart/alternative of one or two single parts
PartLists(S) == {<<a>> : a \in S} \cup {<<a, b>> : a \in S, b \in S}

SingleParts ==
    {Leaf("text/plain", <<" ", "Hi", "\n">>),
     Leaf("text/plain", <<"Yo">>),
     Leaf("text/html", <<"<script>", "x", "</script>", "<p>", "Hi", " ", "there", "</p>">>),
     Leaf("text/html", <<"<p>", "Ho", "</p>", "\n", " ", "\n", "<br>", "ho">>),
     Leaf("image/png", <<>>)}

Alternatives == {Multipart("multipart/alternative", ps) : ps \in PartLists(SingleParts)}

Payloads ==
    SingleParts \cup
    {Multipart("multipart/mixed", ps) : ps \in PartLists(SingleParts \cup Alternatives)}

GetFullBody ==
    /\ pc = "body"
    /\ run' = [run EXCEPT !.result = get_full_body(run.arg)]
    /\ pc' = "body_done"
    /\ UNCHANGED <<world, locals, faults>>

InitBody ==
    /\ mailbox = [m \in Msgs |-> [state |-> "absent"]]
    /\ now = 0
    /\ processed_emails = [k \in {} |-> 0]
    /\ last_run = None
    /\ sink = <<>>
    /\ header = FALSE
    /\ pc = "body"
    /\ after_timestamp = None
    /\ unread_emails = <<>>
    /\ new_emails = <<>>
    /\ idx = 0
    /\ rows_added = 0
    /\ faults = 0
    /\ run \in {[NoRun EXCEPT !.arg = p, !.result = [raised |-> FALSE, text |-> <<>>]] :
                    p \in Payloads}

SpecBody == InitBody /\ [][GetFullBody]_vars

\* =========================================================== properties
Range(seq) == {seq[i] : i \in 1..Len(seq)}
Ledger == DOMAIN processed_emails
Ledger0 == DOMAIN run.table0
SinkKeys(rows) == {email_key(rows[i]) : i \in 1..Len(rows)}
KeyOf(m) == email_key(parse_email_data(_get_email_details(m)))
Fetched == Ids(unread_emails)

\* C1: a message whose id is in the ledger when a run starts is never among
\* the rows that run appends to the sink, whatever the mail source returned.
C1_LedgerIdNeverReappended ==
    \A k \in 1..Len(run.written) : run.written[k] \notin Ledger0

\* a run that fetched a message already in the ledger and appended rows
C1_Witness ==
    /\ run.written # <<>>
    /\ Fetched \cap Ledger0 # {}

\* C2: when the sink append call of a run fails, the run ends with the ledger
\* and the watermark equal to their values at the start of the run.
C2_FailedAppendLeavesLedger ==
    (pc = "ended" /\ run.append = "error") =>
        /\ processed_emails = run.table0
        /\ last_run = run.last_run0

\* C3: every message id in the ledger belongs to a message whose
\* (sender_email, subject, date) key is the key of a row of the sink.
C3_LedgerIdsHaveRows ==
    \A id \in Ledger : KeyOf(id) \in SinkKeys(sink)

\* C4 as stated: a run that follows a run which reached its end, with no mail
\* arrived since the fetch of that run, appends no row.
C4_SecondRunAppendsNothing ==
    run.prev \in {"incomplete", "complete"} => run.written = <<>>

\* C4 as amended: a run that follows a run which reached its end and whose
\* fetch returned every matching unread message, with no mail arrived since
\* that fetch, appends no row.
C4_SecondRunAfterCompleteFetch ==
    run.prev = "complete" => run.written = <<>>

\* such a second run, which fetched mail again and ended
C4_Witness ==
    /\ run.prev = "complete"
    /\ unread_emails # <<>>
    /\ run.written = <<>>
    /\ pc = "ended"

\* C5: a run that reads the remote keys successfully appends no row for a
\* message that already has a row in the sink (written by a run that stopped
\* before the ledger commit).
C5_RedeliveryAppendsNoDuplicate ==
    run.keys_read = "ok" =>
        \A k \in 1..Len(run.written) :
            \A i \in 1..Len(run.sink0) : run.sink0[i].id # run.written[k]

\* C6: the stored watermark never decreases (absent counts as the least value).
C6_WatermarkMonotonic == [][last_run' >= last_run]_vars

\* the watermark was advanced by a run that started with one already stored
C6_Witness ==
    /\ run.last_run0 # None
    /\ run.wm_updated
    /\ last_run > run.last_run0

\* C7: at the end of a run whose fetch, remote key read and sink write all
\* succeeded, the rows appended are those of the fetched messages that are
\* neither in the ledger nor, by key, in the sink; the ledger is its previous
\* content plus exactly the ids written; the watermark was advanced.
C7_SuccessfulRunEffect ==
    (pc = "ended" /\ run.end = "done" /\ run.fetch = "ok"
        /\ run.keys_read = "ok" /\ run.append = "ok") =>
        /\ Range(run.written) =
              {m \in Fetched : m \notin Ledger0 /\ KeyOf(m) \notin SinkKeys(run.sink0)}
        /\ Len(sink) = Len(run.sink0) + Cardinality(Range(run.written))
        /\ Ledger = Ledger0 \cup Range(run.written)
        /\ \A id \in Ledger0 : processed_emails[id] = run.table0[id]
        /\ run.wm_updated

\* C8: once the listing of unread messages has failed, no step of the run
\* changes the ledger, the watermark or the sink, or clears an unread flag.
C8_FetchErrorNoMutation ==
    [][run.fetch = "list_error" =>
         /\ processed_emails' = processed_emails
         /\ last_run' = last_run
         /\ sink' = sink
         /\ \A m \in Msgs : mailbox[m].state = "unread" => mailbox'[m].state = "unread"]_vars

\* a run ended after a failed listing although unprocessed unread mail waited
C8_Witness ==
    /\ pc = "ended"
    /\ run.fetch = "list_error"
    /\ \E m \in Msgs : Matches(m, after_timestamp) /\ ~is_processed(m)

\* C9: when a run has ended, either every id of its batch is in the ledger and
\* the watermark was advanced, or the ledger and the watermark are as they
\* were when the run started.
C9_NoPartialCommit ==
    pc = "ended" =>
        \/ (Ids(new_emails) \subseteq Ledger /\ run.wm_updated)
        \/ (processed_emails = run.table0 /\ last_run = run.last_run0)

\* C10: no id is marked processed before the sink append has succeeded, the
\* watermark is advanced only after every id of the batch is marked, and the
\* unread flag is cleared only for ids that are in the ledger.
C10_CommitOrder ==
    /\ run.marked # {} => run.append \in {"ok", "nothing_to_add"}
    /\ run.wm_updated => Ids(new_emails) \subseteq run.marked
    /\ run.cleared \subseteq Ledger

\* the rows a run has appended so far, as rows of the sink
Appended ==
    IF run.end = "none" THEN <<>> ELSE SubSeq(sink, Len(run.sink0) + 1, Len(sink))

\* C11: when a run has read the remote keys and its append did not fail, the
\* rows it appended are those of the new messages whose (sender_email,
\* subject, date) key was not a key of a row of the sink when the keys were
\* read: rows with such a key are dropped, also when the id is not in the
\* ledger, and the others are kept.
C11_ReconcileAgainstSink ==
    (run.keys_read = "ok" /\ run.append \in {"ok", "nothing_to_add"}) =>
        Range(run.written) =
            {m \in Ids(new_emails) : KeyOf(m) \notin SinkKeys(run.sink0)}

\* C12: the rows appended by one run have pairwise different keys: of the
\* rows of a batch that share a key only the first one is appended.
C12_OneRowPerKeyInBatch ==
    \A i, j \in 1..Len(Appended) :
        i # j => email_key(Appended[i]) # email_key(Appended[j])

\* C13: the filter returns exactly the candidate emails whose id is not in
\* the ledger, each as often as it was given and in the same relative order,
\* and leaves the ledger as it was.
C13_FilterExactStable ==
    pc # "filter" =>
        LET keep == {k \in 1..Len(unread_emails) : unread_emails[k].id \notin Ledger}
        IN  /\ Len(new_emails) = Cardinality(keep)
            /\ \A k \in keep :
                   new_emails[Cardinality({j \in keep : j <= k})] = unread_emails[k]
            /\ processed_emails = run.table0

\* the filter dropped a processed email that stood between two kept ones,
\* which came in an order other than the listing order
C13_Witness ==
    /\ pc # "filter"
    /\ Len(unread_emails) = 3
    /\ Len(new_emails) = 2
    /\ new_emails[1].id = "C"
    /\ new_emails[2].id = "A"
    /\ unread_emails[2].id = "B"

\* C14: when the read of the remote keys fails, the run goes on: every new
\* email is handed to the sink write, in the order of the batch (none is
\* dropped as a duplicate), and the run reaches its end and commits unless
\* a second failure stops it.
C14_KeyReadFailureDegrades ==
    run.keys_read = "error" =>
        /\ run.append \in {"ok", "error"}
        /\ run.append = "ok" =>
              run.written = [i \in 1..Len(new_emails) |-> new_emails[i].id]
        /\ run.end = "aborted" => faults >= 2
        /\ (pc = "ended" /\ run.end # "aborted") =>
              (run.end = "done" /\ Ids(new_emails) \subseteq Ledger)

\* a run whose key read failed wrote a row whose key was already in the sheet
\* and reached its end
C14_Witness ==
    /\ run.keys_read = "error"
    /\ pc = "ended"
    /\ run.end = "done"
    /\ \E k \in 1..Len(run.written) : KeyOf(run.written[k]) \in SinkKeys(run.sink0)

\* C15: when clearing the unread flags fails after the commit, the step
\* leaves the ledger and the watermark as the commit made them (every id of
\* the batch marked, the watermark advanced) and the run ends as a
\* successful run; nothing changes them afterwards in that run.
C15_ClearFailureKeepsCommit ==
    [][run'.mark_read = "error" =>
         /\ processed_emails' = processed_emails
         /\ last_run' = last_run
         /\ Ids(new_emails') \subseteq DOMAIN processed_emails'
         /\ new_emails' # <<>>
         /\ run'.wm_updated
         /\ last_run' # None
         /\ last_run' >= run'.last_run0
         /\ pc' = "ended"
         /\ run'.end = "done"]_vars

\* a run ended after a failed clearing: its batch is still unread
C15_Witness ==
    /\ pc = "ended"
    /\ run.mark_read = "error"
    /\ \A m \in Ids(new_emails) : mailbox[m].state = "unread"
    /\ new_emails # <<>>

\* C16: after any sequence of ledger operations is_processed(id) is true
\* exactly for the ids that were passed to mark_as_processed, and a call of
\* is_processed returns that; no operation (a mark of an id already in the
\* ledger among them) removes a record or changes its processed_at, and there
\* is one record per marked id.
C16_LedgerExactAndIdempotent ==
    [][/\ \A id \in Msgs : (id \in DOMAIN processed_emails') <=> (id \in run'.marked)
       /\ (run'.arg # run.arg \/ run'.result # run.result) =>
              (run'.result <=> run'.arg \in run'.marked)
       /\ \A id \in DOMAIN processed_emails :
              /\ id \in DOMAIN processed_emails'
              /\ processed_emails'[id] = processed_emails[id]
       /\ Cardinality(DOMAIN processed_emails') = Cardinality(run'.marked)]_vars

\* an id was marked again at a later time than its record says
C16_Witness ==
    /\ pc = "ledger"
    /\ \E id \in run.remarked : processed_emails[id] < now /\ run.arg = id /\ run.result

\* C17: no step removes or changes a data row of the sheet or changes the
\* order of the rows: the rows before a step are a prefix of the rows after
\* it (so the rows present when a run starts are there, unchanged and in the
\* same order, when it ends), and a header once written stays.
C17_SinkAppendOnly ==
    [][/\ Len(sink') >= Len(sink)
       /\ SubSeq(sink', 1, Len(sink)) = sink
       /\ header => header']_vars

\* a run ended that found data rows in a sheet without header (its first run
\* could not write it) and appended to them
C17_Witness ==
    /\ pc = "ended"
    /\ ~header
    /\ run.sink0 # <<>>
    /\ Len(sink) > Len(run.sink0)
    /\ SubSeq(sink, 1, Len(run.sink0)) = run.sink0

\* a '<...>' part of s: a '<' at i and the first '>' after it at j, with text
\* in between
IsAnglePart(s, i, j) ==
    /\ i + 1 < j
    /\ s[i] = "<"
    /\ s[j] = ">"
    /\ \A k \in (i + 1)..(j - 1) : s[k] # ">"

\* r is s without its leading and trailing blanks
IsTrimmed(s, r) ==
    /\ r # <<>> => (r[1] # " " /\ r[Len(r)] # " ")
    /\ \E a \in 0..Len(s) :
          /\ a + Len(r) <= Len(s)
          /\ \A k \in 1..Len(s) :
                IF k > a /\ k <= a + Len(r) THEN s[k] = r[k - a] ELSE s[k] = " "

\* C18: the sender extraction gives a result for every string: the text
\* between the brackets of the first '<...>' part when there is one; else the
\* string without leading and trailing blanks when it contains '@'; else the
\* string itself.  "Jane Doe <jane@x.com>" and "jane@x.com" give
\* "jane@x.com", "garbled" gives "garbled".
C18_SenderExtraction ==
    /\ pc = "extracted" =>
          LET s == run.arg
              r == run.result
              parts == {p \in (1..Len(s)) \X (1..Len(s)) : IsAnglePart(s, p[1], p[2])}
          IN  /\ parts # {} =>
                    \E p \in parts :
                       /\ \A q \in parts : p[1] <= q[1]
                       /\ r = SubSeq(s, p[1] + 1, p[2] - 1)
              /\ (parts = {} /\ \E k \in 1..Len(s) : s[k] = "@") => IsTrimmed(s, r)
              /\ (parts = {} /\ \A k \in 1..Len(s) : s[k] # "@") => r = s
    /\ extract_email_address(<<"J", "a", "n", "e", " ", "D", "o", "e", " ", "<",
                                "j", "a", "n", "e", "@", "x", ".", "c", "o", "m", ">">>)
          = <<"j", "a", "n", "e", "@", "x", ".", "c", "o", "m">>
    /\ extract_email_address(<<"j", "a", "n", "e", "@", "x", ".", "c", "o", "m">>)
          = <<"j", "a", "n", "e", "@", "x", ".", "c", "o", "m">>
    /\ extract_email_address(<<"g", "a", "r", "b", "l", "e", "d">>)
          = <<"g", "a", "r", "b", "l", "e", "d">>

\* the text up to the first '>' was taken, not the text up to the last one
C18_Witness ==
    /\ pc = "extracted"
    /\ run.arg = <<"<", "a", ">", ">">>
    /\ run.result = <<"a">>

\* the concatenation of a sequence of sequences
RECURSIVE JoinParts(_)
JoinParts(seqs) ==
    IF seqs = <<>> THEN <<>> ELSE Head(seqs) \o JoinParts(Tail(seqs))

\* the parts of a payload in the order of a depth-first search
RECURSIVE DepthFirst(_)
DepthFirst(payload) ==
    <<payload>> \o
    JoinParts([i \in 1..Len(payload.parts) |-> DepthFirst(payload.parts[i])])

\* C19: the body is the stripped text of the first text/plain part of the
\* depth-first search of the payload, at any depth; when there is no
\* text/plain part anywhere, the cleaned text of the first text/html part;
\* when there is neither, the "no content" value.
C19_PlainTextFirstAtAnyDepth ==
    pc = "body_done" =>
        LET found == DepthFirst(run.arg)
            plain == SelectSeq(found, LAMBDA part : part.mimeType = "text/plain")
            html  == SelectSeq(found, LAMBDA part : part.mimeType = "text/html")
        IN  run.result.text =
               IF plain # <<>> THEN Strip(plain[1].data)
               ELSE IF html # <<>> THEN CleanHtml(html[1].data)
               ELSE NoContent

\* C20: a message without a Date header is given the empty date, and when a
\* run has ended that no failure other than malformed mail has stopped, every
\* other message of its fetch (listed, details read, body decodable, not in
\* the ledger before) is in the ledger.
C20_MalformedMessageDoesNotAbort ==
    /\ _get_email_details("C").date = ""
    /\ parse_email_data(_get_email_details("C")).date = ""
    /\ (pc = "ended" /\ (run.end # "aborted" \/ run.fetch = "raised")) =>
          \A m \in run.readable \cap WellFormed : m \notin Ledger0 => m \in Ledger

\* the messages that arrived while the run was in progress, after its fetch:
\* the fetch returned every matching unread message, and these are unread,
\* match the lower bound of the run and were not returned
ArrivedSinceFetch ==
    {m \in Msgs :
        /\ run.fetch = "ok"
        /\ mailbox[m].state = "unread"
        /\ Matches(m, after_timestamp)
        /\ m \notin Ids(unread_emails)}

\* C21: once a run has written the watermark, every message that arrived
\* after the fetch of that run and before the write is matched by the query
\* of a fetch whose lower bound is that watermark (the fetch of the next
\* run), so it is not hidden from the next run.
C21_WatermarkHidesNoArrival ==
    run.wm_updated =>
        \A m \in ArrivedSinceFetch :
            mailbox[m].internalDate <= last_run => Matches(m, last_run)

\* C22: when runs keep being executed and the calls succeed in the end, every
\* message that is unread in the inbox has a row with its key in the sink at
\* some later time (so none is marked processed or read, and left out of the
\* later runs, without its row written).
C22_NoMailLost ==
    \A m \in WellFormed :
        (mailbox[m].state = "unread") ~> (KeyOf(m) \in SinkKeys(sink))

\* C23: a run that ended because the filter left no new email made no
\* append to the sink (its data rows are those of the start of the run), no
\* insert into the ledger, no change of the watermark and no call that
\* clears unread flags (the emails it fetched are still unread).
C23_NoNewMailChangesNothing ==
    (pc = "ended" /\ run.end = "no_new") =>
        /\ new_emails = <<>>
        /\ sink = run.sink0
        /\ run.append = "none"
        /\ processed_emails = run.table0
        /\ run.marked = {}
        /\ last_run = run.last_run0
        /\ ~run.wm_updated
        /\ run.mark_read = "none"
        /\ \A m \in Ids(unread_emails) : mailbox[m].state = "unread"

\* such a run that fetched mail, all of it in the ledger already, with a
\* watermark stored at an earlier time
C23_Witness ==
    /\ pc = "ended"
    /\ run.end = "no_new"
    /\ unread_emails # <<>>
    /\ Ids(unread_emails) \subseteq Ledger
    /\ last_run # None
    /\ last_run < now

\* C24: every row a run appended carries the fields of its message as
\* fetched: the address extracted from the fetched sender, the fetched
\* subject and date, and as body the fetched 'body' field, which is the text
\* get_full_body gave for the message.
C24_RowCarriesFetchedFields ==
    \A i \in 1..Len(Appended) :
        LET row == Appended[i]
            email == _get_email_details(row.id)
        IN  /\ email \in Range(unread_emails)
            /\ row.sender_email = extract_email_address(email.sender)
            /\ row.subject = email.subject
            /\ row.date = email.date
            /\ row.body = email.body
            /\ row.body = get_full_body(Payload(row.id)).text

====
